---------------------------- MODULE Spec2Model ----------------------------
(***************************************************************************)
(* A model of PVGeo's table reshaping helper (PVGPpy/filt/tables.py) and   *)
(* of its slicing filters (PVGeo/filters/slicing.py).                      *)
(*                                                                         *)
(* Two state machines share the module:                                    *)
(*   SpecTable  calls of reshapeTable on a table, the result being fed     *)
(*              back as the next input;                                    *)
(*   Spec       one slicing filter object, its setters and its pipeline    *)
(*              passes (RequestInformation, RequestData).                  *)
(* Numbers are exact: numpy's float64 holds the small integers and the     *)
(* fractions used here without the rounding that would change a result.    *)
(***************************************************************************)
EXTENDS Integers, Sequences, FiniteSets, TLC

VARIABLES
    cls,      \* the class of the filter object
    self,     \* the filter object's fields
    pts,      \* the point set on input port 0 (the path filters)
    data,     \* the data set to slice: its bounds (xmin,xmax,ymin,ymax,zmin,zmax)
    output,   \* the filter's output data object
    gp,       \* ghost: the last _get_planes call [called, src, k, planes, raised]
    err,      \* ghost: the exception the last call raised, or None
    mods,     \* ghost: how many times the last call called Modified()
    tin,      \* the vtkTable handed to reshapeTable as pdi: a sequence of columns
    tout,     \* the vtkTable reshapeTable wrote (pdo): [rows, arrays]
    torig,    \* ghost: the table the chain of reshapes started from
    chain,    \* ghost: how many times a result was fed back as the input
    tcall     \* ghost: the last reshapeTable call [op, nrows, ncols, raised]

tvars == <<tin, tout, torig, chain, tcall>>
fvars == <<cls, self, pts, data, output, gp, err, mods>>
vars == <<fvars, tvars>>

None == "None"

\* An object reference that may be None: <<>> for None, <<v>> for the object v.
Nothing == <<>>
Some(v) == <<v>>

(***************************************************************************)
(* Bounds of the table model.                                              *)
(***************************************************************************)
MaxCells == 6
MaxChain == 1

(***************************************************************************)
(* Tables.  A table is a non-empty sequence of columns of equal length.    *)
(***************************************************************************)
NumCols(t) == Len(t)
NumRows(t) == Len(t[1])

\* The table of c columns and r rows whose cells count 1, 2, 3, ... down
\* column 0, then down column 1, ...
Iota(c, r) == [i \in 1..c |-> [j \in 1..r |-> (i - 1) * r + j]]

\* The table of c columns and r rows whose cells alternate 0, 1 (repeated
\* values).
Parity(c, r) == [i \in 1..c |-> [j \in 1..r |-> (i + j) % 2]]

Shapes == {s \in (1..MaxCells) \X (0..MaxCells) : s[1] * s[2] <= MaxCells}

Tables == UNION {{Iota(s[1], s[2]), Parity(s[1], s[2])} : s \in Shapes}

Dims == 0..(MaxCells + 1)

NewTable == [rows |-> 0, arrays |-> <<>>]

\* 'Field%d' % i
FieldName(i) == <<"Field", i>>

\* vtkFieldData.AddArray: an array of the same name is replaced, a new one is
\* appended.
AddArray(arrays, a) ==
    IF \E k \in 1..Len(arrays) : arrays[k].name = a.name
    THEN [k \in 1..Len(arrays) |-> IF arrays[k].name = a.name THEN a ELSE arrays[k]]
    ELSE Append(arrays, a)

\* data = np.empty((cols,rows)); data[i] = column i, read in C order: the k-th
\* element (0-based) of the flat buffer.
FlatAt(pdi, k) == pdi[(k \div NumRows(pdi)) + 1][(k % NumRows(pdi)) + 1]

\* np.reshape(data, (nrows,ncols), order='C') followed by data[:,i]: column i
\* (0-based) of the reshaped array.
ReshapedColumn(pdi, nrows, ncols, i) ==
    [j \in 1..nrows |-> FlatAt(pdi, (j - 1) * ncols + i)]

\* The loop of lines 40-49: one array per output column, added in order.
RECURSIVE AddColumns(_, _, _, _, _)
AddColumns(arrays, pdi, nrows, ncols, i) ==
    IF i >= ncols THEN arrays
    ELSE AddColumns(AddArray(arrays,
                             [name |-> FieldName(i),
                              data |-> ReshapedColumn(pdi, nrows, ncols, i)]),
                    pdi, nrows, ncols, i + 1)

\* A variant of reshapeTable that sizes the output before it compares the
\* element counts.
reshapeTableLateCheck(pdi, nrows, ncols, pdo) ==
    LET cols == NumCols(pdi)
        rows == NumRows(pdi)
        sized == [pdo EXCEPT !.rows = nrows]
    IN  IF ncols * nrows # cols * rows
        THEN [pdo |-> sized, raised |-> "Exception"]
        ELSE [pdo |-> [sized EXCEPT !.arrays = AddColumns(sized.arrays, pdi, nrows, ncols, 0)],
              raised |-> None]

\* reshapeTable(pdi, nrows, ncols, pdo): the table written and the exception
\* raised, if any.
reshapeTable(pdi, nrows, ncols, pdo) ==
    LET cols == NumCols(pdi)
        rows == NumRows(pdi)
    IN  IF ncols * nrows # cols * rows
        THEN [pdo |-> pdo, raised |-> "Exception"]
        ELSE LET sized == [pdo EXCEPT !.rows = nrows]
             IN  [pdo |-> [sized EXCEPT !.arrays = AddColumns(sized.arrays, pdi, nrows, ncols, 0)],
                  raised |-> None]

\* The columns of a written table, as the next call reads them with GetColumn.
Columns(t) == [i \in 1..Len(t.arrays) |-> t.arrays[i].data]

TIdle ==
    /\ tin = <<>> /\ tout = NewTable /\ torig = <<>> /\ chain = 0
    /\ tcall = [op |-> "init", nrows |-> 0, ncols |-> 0, raised |-> None]

TInit ==
    /\ tin \in Tables
    /\ torig = tin
    /\ tout = NewTable
    /\ chain = 0
    /\ tcall = [op |-> "init", nrows |-> 0, ncols |-> 0, raised |-> None]

\* A call reshapeTable(tin, nrows, ncols) with pdo left to its default: a new
\* vtkTable.
ReshapeCall(nrows, ncols) ==
    LET res == reshapeTable(tin, nrows, ncols, NewTable)
    IN  /\ tout' = res.pdo
        /\ tcall' = [op |-> "reshapeTable", nrows |-> nrows, ncols |-> ncols,
                     raised |-> res.raised]
        /\ UNCHANGED <<tin, torig, chain, fvars>>

\* The caller hands the table just written to the next call as its input.
FeedBack ==
    /\ tcall.op = "reshapeTable"
    /\ tcall.raised = None
    /\ Len(tout.arrays) >= 1
    /\ chain < MaxChain
    /\ tin' = Columns(tout)
    /\ chain' = chain + 1
    /\ tcall' = [op |-> "feed", nrows |-> 0, ncols |-> 0, raised |-> None]
    /\ UNCHANGED <<tout, torig, fvars>>

TNext ==
    \/ \E nrows \in Dims, ncols \in Dims : ReshapeCall(nrows, ncols)
    \/ FeedBack

(***************************************************************************)
(* The slicing filters.                                                    *)
(***************************************************************************)
MaxPts == 5
MaxSlices == 3
DefaultSlices == 5
DefaultLoc == 50
DefaultAxis == 0

Classes == {"ManySlicesAlongPoints", "SlideSliceAlongPoints",
            "ManySlicesAlongAxis", "SliceThroughTime"}

IsPath == cls \in {"ManySlicesAlongPoints", "SlideSliceAlongPoints"}
IsAxial == cls \in {"ManySlicesAlongAxis", "SliceThroughTime"}

\* A path laid out in order along x.
Line(n) == [i \in 1..n |-> <<i - 1, 0, 0>>]
\* A path stored out of order: its first point, then the others from the
\* farthest to the nearest.
Back(n) == [i \in 1..n |-> <<0, IF i = 1 THEN 0 ELSE n + 1 - i, 1>>]

PointSets == {Line(n) : n \in 1..MaxPts} \cup {Back(MaxPts)}

\* Data sets to slice, by their bounds: a volume, and a slab flat in y.
Volume == <<0, 10, 0, 4, -2, 2>>
Slab == <<-3, 3, 5, 5, 0, 1>>
DataSets == {Volume, Slab}

SliceArgs == 0..MaxSlices
LocArgs == {-1, 99, 100}
AxisArgs == {-1, 0, 1, 2, 3}
\* Padding fractions <<numerator, denominator>>: -1/10, 1/100, 3/5.
PadArgs == {<<-1, 10>>, <<1, 100>>, <<3, 5>>}
DefaultPad == <<1, 100>>
DtArgs == {1, 2}
DefaultDt == 1

\* vtkPlane: SetOrigin, SetNormal.
_generate_plane(origin, normal) == [origin |-> origin, normal |-> normal]

\* vtkCutter on pdi with the plane: the external cut, kept as the pair it is
\* a function of.
_slice(pdi, plane) == [cut |-> pdi, by |-> plane]

NullBlock == [piece |-> Nothing, name |-> Nothing]

\* 'Slice%.2d' % blk: the decimal digits of blk, at least two of them.
RECURSIVE Digits(_)
Digits(n) == IF n < 10 THEN <<n>> ELSE Append(Digits(n \div 10), n % 10)
SliceName(blk) == <<"Slice">> \o (IF blk < 10 THEN <<0>> ELSE <<>>) \o Digits(blk)

\* vtkMultiBlockDataSet.SetNumberOfBlocks: blocks beyond n are dropped, new
\* ones are empty.
SetNumberOfBlocks(blocks, n) ==
    [i \in 1..n |-> IF i <= Len(blocks) THEN blocks[i] ELSE NullBlock]

\* vtkMultiBlockDataSet.SetBlock(blk, piece) followed by the NAME metadata of
\* that block: a block index past the end grows the data set.
SetBlock(blocks, blk, piece, name) ==
    LET grown == IF blk + 1 > Len(blocks) THEN SetNumberOfBlocks(blocks, blk + 1)
                 ELSE blocks
    IN  [grown EXCEPT ![blk + 1] = [piece |-> Some(piece), name |-> Some(name)]]

\* _SliceBase.set_number_of_slices on the fields s: the new fields and the
\* number of Modified() calls.
BaseSetNumberOfSlices(s, num) ==
    IF s.n_slices # num
    THEN [self |-> [s EXCEPT !.n_slices = num], mods |-> 1]
    ELSE [self |-> s, mods |-> 0]

SqDist(p, q) ==
    (p[1] - q[1]) * (p[1] - q[1]) + (p[2] - q[2]) * (p[2] - q[2])
        + (p[3] - q[3]) * (p[3] - q[3])

\* Whether point a comes before point b (1-based) in the neighbour list of
\* points[0]: by ascending distance, equal distances by index.
Closer(points, a, b) ==
    \/ SqDist(points[a], points[1]) < SqDist(points[b], points[1])
    \/ /\ SqDist(points[a], points[1]) = SqDist(points[b], points[1])
       /\ a < b

\* tree.query([points[0]], k=numPoints)[1].ravel(): the 0-based indices of the
\* points by ascending distance from points[0].
RECURSIVE NearestFrom(_, _)
NearestFrom(points, rest) ==
    IF rest = {} THEN <<>>
    ELSE LET a == CHOOSE x \in rest : \A y \in rest \ {x} : Closer(points, x, y)
         IN  <<a - 1>> \o NearestFrom(points, rest \ {a})
NearestOrder(points) == NearestFrom(points, 1..Len(points))

\* The loop of _get_planes: range(i, numPoints - 1, stride), one plane per
\* index.
RECURSIVE PlaneLoop(_, _, _, _)
PlaneLoop(points, ptsi, i, stride) ==
    IF i >= Len(points) - 1 THEN <<>>
    ELSE LET pts1 == points[ptsi[i + 1] + 1]
             pts2 == points[ptsi[i + 2] + 1]
             normal == <<pts2[1] - pts1[1], pts2[2] - pts1[2], pts2[3] - pts1[3]>>
         IN  <<_generate_plane(pts1, normal)>>
                 \o PlaneLoop(points, ptsi, i + stride, stride)

\* ManySlicesAlongPoints._get_planes: the planes, or the exception range()
\* raises for a zero step.
_get_planes(s, points) ==
    IF s.n_slices = 0 THEN [planes |-> <<>>, raised |-> None]
    ELSE LET numPoints == Len(points)
             ptsi == IF s.useNearestNbr THEN NearestOrder(points)
                     ELSE [i \in 1..numPoints |-> i - 1]
             stride == numPoints \div s.n_slices
         IN  IF stride = 0
             THEN [planes |-> <<>>, raised |-> "ValueError"]
             ELSE [planes |-> PlaneLoop(points, ptsi, 0, stride), raised |-> None]

\* The loop of ManySlicesAlongPoints._get_slice: one block per plane.
RECURSIVE SliceLoop(_, _, _, _)
SliceLoop(blocks, pdi, planes, blk) ==
    IF blk >= Len(planes) THEN blocks
    ELSE SliceLoop(SetBlock(blocks, blk, _slice(pdi, planes[blk + 1]), SliceName(blk)),
                   pdi, planes, blk + 1)

\* ManySlicesAlongPoints._get_slice on a new output.
Many_get_slice(s, pdi, planes, out) ==
    SliceLoop(SetNumberOfBlocks(out, s.n_slices), pdi, planes, 0)

\* int(np.floor(numPoints * float(loc / 100.0))): for the point counts of this
\* model (below 50) the float product rounds to the exact quotient.
LocIndex(numPoints, loc) == (numPoints * loc) \div 100

GpNone == [called |-> FALSE, src |-> <<>>, k |-> 0, planes |-> <<>>, raised |-> None]

(***************************************************************************)
(* Exact fractions <<numerator, denominator>>, denominator > 0, in lowest  *)
(* terms: the arithmetic of _set_axial_range and get_input_center.         *)
(***************************************************************************)
Abs(n) == IF n < 0 THEN -n ELSE n
RECURSIVE GCD(_, _)
GCD(a, b) == IF b = 0 THEN a ELSE GCD(b, a % b)
Frac(n, d) == LET g == GCD(Abs(n), d) IN <<n \div g, d \div g>>
FInt(n) == <<n, 1>>
FAdd(x, y) == Frac(x[1] * y[2] + y[1] * x[2], x[2] * y[2])
FSub(x, y) == Frac(x[1] * y[2] - y[1] * x[2], x[2] * y[2])
FMul(x, y) == Frac(x[1] * y[1], x[2] * y[2])
FDivInt(x, k) == Frac(x[1], x[2] * k)
FLe(x, y) == x[1] * y[2] <= y[1] * x[2]

\* np.linspace(start, stop, num) for num >= 0: start + i * (stop - start) / (num - 1).
linspace(start, stop, num) ==
    IF num = 1 THEN <<start>>
    ELSE [i \in 1..num |->
            FAdd(start, FMul(FInt(i - 1), FDivInt(FSub(stop, start), num - 1)))]

\* ManySlicesAlongAxis.get_input_bounds
get_input_bounds(s, pdi) == <<pdi[s.axis * 2 + 1], pdi[s.axis * 2 + 2]>>

\* ManySlicesAlongAxis.get_input_center
get_input_center(pdi) ==
    <<FDivInt(FInt(pdi[2] + pdi[1]), 2), FDivInt(FInt(pdi[4] + pdi[3]), 2),
      FDivInt(FInt(pdi[6] + pdi[5]), 2)>>

\* ManySlicesAlongAxis.get_normal
get_normal(s) == [a \in 1..3 |-> IF a = s.axis + 1 THEN 1 ELSE 0]

\* ManySlicesAlongAxis._set_axial_range: the new range.
_set_axial_range(s, pdi) ==
    LET bounds == get_input_bounds(s, pdi)
        padding == FMul(FInt(bounds[2] - bounds[1]), s.pad)
    IN  linspace(FAdd(FInt(bounds[1]), padding), FSub(FInt(bounds[2]), padding),
                 s.n_slices)

\* ManySlicesAlongAxis._get_origin with the range rng (idx 0-based).
_get_origin(s, pdi, rng, idx) ==
    [a \in 1..3 |-> IF a = s.axis + 1 THEN rng[idx + 1] ELSE get_input_center(pdi)[a]]

\* The loop of ManySlicesAlongAxis.RequestData: block i is the slice at rng[i].
RECURSIVE AxisLoop(_, _, _, _, _)
AxisLoop(blocks, s, pdi, rng, i) ==
    IF i >= s.n_slices THEN blocks
    ELSE AxisLoop(SetBlock(blocks, i,
                           _slice(pdi, _generate_plane(_get_origin(s, pdi, rng, i),
                                                       get_normal(s))),
                           SliceName(i)),
                  s, pdi, rng, i + 1)

\* _helpers.update_time_steps: the time step values i * dt, i = 0 .. n-1.
update_time_steps(n, dt) == [i \in 1..n |-> (i - 1) * dt]

\* _helpers.get_requested_time: the index of the requested time step, one of
\* the registered steps.
RequestedTimes(s) == IF s.n_slices = 0 THEN {0} ELSE 0..(s.n_slices - 1)

(***************************************************************************)
(* Construction.                                                           *)
(***************************************************************************)
NewFilter(c) ==
    [n_slices |-> DefaultSlices,
     useNearestNbr |-> IF c \in {"ManySlicesAlongPoints", "SlideSliceAlongPoints"}
                       THEN TRUE ELSE None,
     planes |-> Nothing,
     loc |-> IF c = "SlideSliceAlongPoints" THEN DefaultLoc ELSE None,
     axis |-> IF c \in {"ManySlicesAlongAxis", "SliceThroughTime"}
              THEN DefaultAxis ELSE None,
     rng |-> Nothing,
     pad |-> IF c \in {"ManySlicesAlongAxis", "SliceThroughTime"}
             THEN DefaultPad ELSE None,
     dt |-> IF c = "SliceThroughTime" THEN DefaultDt ELSE None,
     timesteps |-> Nothing]

\* The output data object as the pipeline hands it to RequestData: empty.
NewOutput(c) ==
    IF c \in {"ManySlicesAlongPoints", "ManySlicesAlongAxis"} THEN <<>> ELSE Nothing

FIdle ==
    /\ cls = "ManySlicesAlongPoints" /\ self = NewFilter(cls)
    /\ pts = Line(1) /\ data = Volume /\ output = NewOutput(cls)
    /\ gp = GpNone /\ err = None /\ mods = 0

Init ==
    /\ cls \in Classes
    /\ self = NewFilter(cls)
    /\ pts \in IF IsPath THEN PointSets ELSE {None}
    /\ data \in IF IsPath THEN {Volume} ELSE DataSets
    /\ output = NewOutput(cls)
    /\ gp = GpNone
    /\ err = None
    /\ mods = 0
    /\ TIdle

(***************************************************************************)
(* Setters.                                                                *)
(***************************************************************************)
\* set_number_of_slices(num): _SliceBase's, and SliceThroughTime's override.
set_number_of_slices(num) ==
    LET r == BaseSetNumberOfSlices(self, num)
    IN  /\ IF cls = "SliceThroughTime"
           THEN /\ self' = [r.self EXCEPT !.timesteps = Some(update_time_steps(num, r.self.dt))]
                /\ mods' = r.mods + 1
           ELSE /\ self' = r.self
                /\ mods' = r.mods
        /\ err' = None
        /\ UNCHANGED <<cls, pts, data, output, gp, tvars>>

\* ManySlicesAlongPoints.set_use_nearest_nbr(flag)
set_use_nearest_nbr(flag) ==
    /\ IsPath
    /\ IF self.useNearestNbr # flag
       THEN self' = [self EXCEPT !.useNearestNbr = flag] /\ mods' = 1
       ELSE self' = self /\ mods' = 0
    /\ err' = None
    /\ UNCHANGED <<cls, pts, data, output, gp, tvars>>

\* A variant of set_location that stores the location before it checks it.
set_location_unchecked(loc) ==
    /\ cls = "SlideSliceAlongPoints"
    /\ self' = [self EXCEPT !.loc = loc]
    /\ mods' = IF self.loc # loc THEN 1 ELSE 0
    /\ err' = IF loc > 99 \/ loc < 0 THEN "PVGeoError" ELSE None
    /\ UNCHANGED <<cls, pts, data, output, gp, tvars>>

\* SlideSliceAlongPoints.set_location(loc)
set_location(loc) ==
    /\ cls = "SlideSliceAlongPoints"
    /\ IF loc > 99 \/ loc < 0
       THEN self' = self /\ mods' = 0 /\ err' = "PVGeoError"
       ELSE /\ IF self.loc # loc
               THEN self' = [self EXCEPT !.loc = loc] /\ mods' = 1
               ELSE self' = self /\ mods' = 0
            /\ err' = None
    /\ UNCHANGED <<cls, pts, data, output, gp, tvars>>

\* ManySlicesAlongAxis.set_axis(axis)
set_axis(axis) ==
    /\ IsAxial
    /\ IF axis \notin {0, 1, 2}
       THEN self' = self /\ mods' = 0 /\ err' = "PVGeoError"
       ELSE /\ IF self.axis # axis
               THEN self' = [self EXCEPT !.axis = axis] /\ mods' = 1
               ELSE self' = self /\ mods' = 0
            /\ err' = None
    /\ UNCHANGED <<cls, pts, data, output, gp, tvars>>

\* ManySlicesAlongAxis.set_padding(pad)
set_padding(pad) ==
    /\ IsAxial
    /\ IF self.pad # pad
       THEN self' = [self EXCEPT !.pad = pad] /\ mods' = 1
       ELSE self' = self /\ mods' = 0
    /\ err' = None
    /\ UNCHANGED <<cls, pts, data, output, gp, tvars>>

\* SliceThroughTime.set_time_delta(dt)
set_time_delta(dt) ==
    /\ cls = "SliceThroughTime"
    /\ IF self.dt # dt
       THEN /\ self' = [self EXCEPT !.dt = dt,
                                    !.timesteps = Some(update_time_steps(self.n_slices, dt))]
            /\ mods' = 1
       ELSE self' = self /\ mods' = 0
    /\ err' = None
    /\ UNCHANGED <<cls, pts, data, output, gp, tvars>>

(***************************************************************************)
(* The pipeline.                                                           *)
(***************************************************************************)
\* SetInputDataObject(0, points) on a path filter: another point set arrives
\* on port 0.
SetInputPoints(p) ==
    /\ IsPath
    /\ p # pts
    /\ pts' = p
    /\ err' = None
    /\ mods' = 0
    /\ UNCHANGED <<cls, self, data, output, gp, tvars>>

GpCall(s, res) ==
    [called |-> TRUE, src |-> pts, k |-> s.n_slices, planes |-> res.planes,
     raised |-> res.raised]

\* ManySlicesAlongPoints.RequestData
Many_RequestData ==
    /\ cls = "ManySlicesAlongPoints"
    /\ LET res == _get_planes(self, pts)
       IN  /\ gp' = GpCall(self, res)
           /\ err' = res.raised
           /\ output' = IF res.raised # None THEN NewOutput(cls)
                        ELSE Many_get_slice(self, data, res.planes, NewOutput(cls))
    /\ mods' = 0
    /\ UNCHANGED <<cls, self, pts, data, tvars>>

\* SlideSliceAlongPoints.RequestInformation
Slide_RequestInformation ==
    /\ cls = "SlideSliceAlongPoints"
    /\ LET r == BaseSetNumberOfSlices(self, Len(pts))
           res == _get_planes(r.self, pts)
       IN  /\ gp' = GpCall(r.self, res)
           /\ err' = res.raised
           /\ self' = IF res.raised # None THEN r.self
                      ELSE [r.self EXCEPT !.planes = Some(res.planes)]
           /\ mods' = r.mods
    /\ UNCHANGED <<cls, pts, data, output, tvars>>

\* SlideSliceAlongPoints.RequestData
Slide_RequestData ==
    /\ cls = "SlideSliceAlongPoints"
    /\ LET lazy == self.planes = Nothing \/ Len(self.planes[1]) < 1
           r == IF lazy THEN BaseSetNumberOfSlices(self, Len(pts))
                ELSE [self |-> self, mods |-> 0]
           res == _get_planes(r.self, pts)
           s1 == IF lazy /\ res.raised = None
                 THEN [r.self EXCEPT !.planes = Some(res.planes)] ELSE r.self
           idx == LocIndex(Len(pts), s1.loc)
       IN  /\ gp' = IF lazy THEN GpCall(r.self, res) ELSE gp
           /\ self' = s1
           /\ mods' = r.mods
           /\ IF lazy /\ res.raised # None
              THEN err' = res.raised /\ output' = NewOutput(cls)
              ELSE IF idx >= Len(s1.planes[1])
              THEN err' = "IndexError" /\ output' = NewOutput(cls)
              ELSE err' = None /\ output' = Some(_slice(data, s1.planes[1][idx + 1]))
    /\ UNCHANGED <<cls, pts, data, tvars>>

\* ManySlicesAlongAxis.RequestData
Axis_RequestData ==
    /\ cls = "ManySlicesAlongAxis"
    /\ LET rng == _set_axial_range(self, data)
       IN  /\ self' = [self EXCEPT !.rng = Some(rng)]
           /\ output' = AxisLoop(SetNumberOfBlocks(NewOutput(cls), self.n_slices),
                                 self, data, rng, 0)
    /\ err' = None
    /\ mods' = 0
    /\ UNCHANGED <<cls, pts, data, gp, tvars>>

\* SliceThroughTime.RequestInformation
Time_RequestInformation ==
    /\ cls = "SliceThroughTime"
    /\ self' = [self EXCEPT !.timesteps = Some(update_time_steps(self.n_slices, self.dt))]
    /\ err' = None
    /\ mods' = 0
    /\ UNCHANGED <<cls, pts, data, output, gp, tvars>>

\* SliceThroughTime.RequestData, the requested time step being i.
Time_RequestData(i) ==
    /\ cls = "SliceThroughTime"
    /\ i \in RequestedTimes(self)
    /\ LET rng == _set_axial_range(self, data)
       IN  /\ self' = [self EXCEPT !.rng = Some(rng)]
           /\ IF i >= Len(rng)
              THEN err' = "IndexError" /\ output' = NewOutput(cls)
              ELSE /\ err' = None
                   /\ output' = Some(_slice(data,
                                        _generate_plane(_get_origin(self, data, rng, i),
                                                        get_normal(self))))
    /\ mods' = 0
    /\ UNCHANGED <<cls, pts, data, gp, tvars>>

Next ==
    \/ \E num \in SliceArgs : set_number_of_slices(num)
    \/ \E flag \in BOOLEAN : set_use_nearest_nbr(flag)
    \/ \E loc \in LocArgs : set_location(loc)
    \/ \E axis \in AxisArgs : set_axis(axis)
    \/ \E pad \in PadArgs : set_padding(pad)
    \/ \E dt \in DtArgs : set_time_delta(dt)
    \/ \E p \in PointSets : SetInputPoints(p)
    \/ Many_RequestData
    \/ Slide_RequestInformation
    \/ Slide_RequestData
    \/ Axis_RequestData
    \/ Time_RequestInformation
    \/ \E i \in 0..MaxSlices + DefaultSlices : Time_RequestData(i)

Spec == Init /\ [][Next]_vars

\* reshapeTable alone: the filter stays as constructed.
TableInit == TInit /\ FIdle
SpecTable == TableInit /\ [][TNext]_vars


(***************************************************************************)
(* Properties of reshapeTable, checked under SpecTable.                    *)
(***************************************************************************)
\* The rows of a written table.
RowsOf(t) == [j \in 1..t.rows |-> [i \in 1..Len(t.arrays) |-> t.arrays[i].data[j]]]

\* C1: reshaping a table of c columns and r rows to any (r2, c2) with
\* r2*c2 = r*c, and the result back to (r, c), gives the columns of the table
\* it started from.
C1_RoundTrip ==
    (/\ chain = 1
     /\ tcall.op = "reshapeTable"
     /\ tcall.raised = None
     /\ tcall.nrows = NumRows(torig)
     /\ tcall.ncols = NumCols(torig))
    => Columns(tout) = torig

\* C2: a call whose nrows*ncols differs from the input's element count raises,
\* and the output table is left as it was: no rows, no arrays.
C2_RejectsMismatch ==
    (/\ tcall.op = "reshapeTable"
     /\ tcall.nrows * tcall.ncols # NumRows(tin) * NumCols(tin))
    => (tcall.raised = "Exception" /\ tout.rows = 0 /\ tout.arrays = <<>>)

\* A rejected call that asked for fewer cells than the input holds, and for at
\* least one row.
C2_Witness ==
    /\ tcall.op = "reshapeTable"
    /\ tcall.raised = "Exception"
    /\ tcall.nrows >= 1
    /\ tcall.nrows * tcall.ncols < NumRows(tin) * NumCols(tin)
    /\ tout = NewTable

\* C3: the table of columns [1,2,3] and [4,5,6] reshaped to 3 rows and 2
\* columns has the rows [1,4], [2,5], [3,6].
C3_Example ==
    (/\ tin = <<(<<1, 2, 3>>), (<<4, 5, 6>>)>>
     /\ tcall.op = "reshapeTable"
     /\ tcall.nrows = 3
     /\ tcall.ncols = 2)
    => RowsOf(tout) = <<(<<1, 4>>), (<<2, 5>>), (<<3, 6>>)>>

(***************************************************************************)
(* Properties of the slicing filters, checked under Spec.                  *)
(***************************************************************************)
CeilDiv(a, b) == (a + b - 1) \div b

\* C4: the collection ManySlicesAlongPoints.RequestData writes has exactly one
\* slot per plane of _get_planes, slot i holding the cut of planes[i] under
\* the name Slice%02d of i.
C4_CollectionSize ==
    (cls = "ManySlicesAlongPoints" /\ gp.called /\ gp.raised = None)
    => /\ Len(output) = Len(gp.planes)
       /\ \A i \in 1..Len(gp.planes) :
            /\ i <= Len(output)
            /\ output[i] = [piece |-> Some(_slice(data, gp.planes[i])),
                            name |-> Some(SliceName(i - 1))]

\* C5: for N >= 2 points and k >= 1 slices _get_planes completes and returns
\* ceil((N-1) / floor(N/k)) planes, at most k of them, and the last segment
\* start index is below N-1.
C5_PlaneStride ==
    (gp.called /\ Len(gp.src) >= 2 /\ gp.k >= 1)
    => /\ gp.raised = None
       /\ Len(gp.src) \div gp.k >= 1
       /\ Len(gp.planes) = CeilDiv(Len(gp.src) - 1, Len(gp.src) \div gp.k)
       /\ Len(gp.planes) <= gp.k
       /\ (Len(gp.planes) - 1) * (Len(gp.src) \div gp.k) < Len(gp.src) - 1

\* The range just computed lies in [lo+padding, hi-padding] and does not
\* decrease.
RangeWithinPadding ==
    LET bounds == get_input_bounds(self, data)
        padding == FMul(FInt(bounds[2] - bounds[1]), self.pad)
        lo == FAdd(FInt(bounds[1]), padding)
        hi == FSub(FInt(bounds[2]), padding)
        rng == self.rng[1]
    IN  /\ \A i \in 1..Len(rng) : FLe(lo, rng[i]) /\ FLe(rng[i], hi)
        /\ \A i \in 1..(Len(rng) - 1) : FLe(rng[i], rng[i + 1])

\* C6: for every axis, bounds, slice count >= 1 and padding fraction the
\* setter accepts, the positions _set_axial_range computes lie in
\* [lo+padding, hi-padding] and are non-decreasing.
C6_AxisRange ==
    [][((Axis_RequestData \/ \E i \in 0..MaxSlices + DefaultSlices : Time_RequestData(i))
        /\ self.n_slices >= 1)
       => RangeWithinPadding']_vars

\* C7: a setter called with the value the parameter already has changes
\* nothing and does not call Modified().
C7_SettersDetectChange ==
    [][/\ \A num \in SliceArgs :
            (set_number_of_slices(num) /\ num = self.n_slices)
            => (self' = self /\ mods' = 0)
       /\ \A flag \in BOOLEAN :
            (set_use_nearest_nbr(flag) /\ flag = self.useNearestNbr)
            => (self' = self /\ mods' = 0)
       /\ \A loc \in LocArgs :
            (set_location(loc) /\ loc = self.loc) => (self' = self /\ mods' = 0)
       /\ \A axis \in AxisArgs :
            (set_axis(axis) /\ axis = self.axis) => (self' = self /\ mods' = 0)
       /\ \A pad \in PadArgs :
            (set_padding(pad) /\ pad = self.pad) => (self' = self /\ mods' = 0)
       /\ \A dt \in DtArgs :
            (set_time_delta(dt) /\ dt = self.dt) => (self' = self /\ mods' = 0)
      ]_vars

\* C8: every SlideSliceAlongPoints.RequestData that selects a plane selects it
\* from planes generated from the point set then on input port 0.
C8_NoStalePlanes ==
    [][(Slide_RequestData /\ err' = None) => gp'.src = pts']_vars

\* C9: set_axis outside {0,1,2} and set_location outside [0,99] raise, leave
\* the filter as it was and do not call Modified(); so the axis stays in
\* {0,1,2} and the location in [0,99].
C9_RejectsOutOfRange ==
    /\ [](IsAxial => self.axis \in {0, 1, 2})
    /\ [](cls = "SlideSliceAlongPoints" => self.loc \in 0..99)
    /\ [][/\ \A axis \in AxisArgs :
               (set_axis(axis) /\ axis \notin {0, 1, 2})
               => (err' = "PVGeoError" /\ self' = self /\ mods' = 0)
          /\ \A loc \in LocArgs :
               (set_location(loc) /\ (loc < 0 \/ loc > 99))
               => (err' = "PVGeoError" /\ self' = self /\ mods' = 0)
         ]_vars

\* A set_location was rejected after the location had been moved to 99.
C9_Witness ==
    /\ cls = "SlideSliceAlongPoints"
    /\ err = "PVGeoError"
    /\ self.loc = 99

\* C10: with the plane cache built from the point set on port 0 (N >= 2) and a
\* location in [0,99], the index floor(N * location / 100) is below the number
\* of cached planes.
C10_IndexInRange ==
    (/\ cls = "SlideSliceAlongPoints"
     /\ self.planes # Nothing
     /\ gp.called
     /\ gp.src = pts
     /\ Len(pts) >= 2
     /\ self.loc \in 0..99)
    => LocIndex(Len(pts), self.loc) < Len(self.planes[1])

=============================================================================
